---- MODULE Spec2Model ----
(***************************************************************************)
(* A model of the wrenpp binding layer (src/Wren++.h, src/Wren++.cpp):     *)
(* the signature dispatch registry, the type identity registry, the        *)
(* foreign object model, the Method handle and the VM wrapper.             *)
(*                                                                         *)
(* Strings are sequences of character codes (1 = 'a', 2 = 'b', 3 = 's').   *)
(* Assertions are modelled as enabled (a failed assert aborts the process: *)
(* aborted = TRUE, after which no operation runs).                         *)
(***************************************************************************)
EXTENDS Integers, Sequences, FiniteSets, TLC

VARIABLES
    aborted,        \* a failed assert() has terminated the process
    boundState,     \* runtime -> BoundState {methods, classes} (the VM's user data)
    registered,     \* history: runtime -> per key, the bindings registered, in order
    numRegs,        \* history: number of registrations made so far
    lookup,         \* the last foreignMethodProvider / foreignClassProvider call
    hashed,         \* the signatures hashed so far, each with its key
    typeIdCounter,  \* typeId(): the static counter of type ids
    typeIds,        \* getTypeIdImpl<T>(): the static id of each native type
    classNames,     \* classNameStorage()
    moduleNames,    \* moduleNameStorage()
    requestOrder,   \* history: the native types in the order of their first id request
    lastIdOf,       \* history: the last getTypeId<T>() call made by the host
    bindLog,        \* history: the bindClass calls that have returned
    firstBind,      \* history: the (module, class) of each type's first bindClass
    heap,           \* the foreign wrappers made by wrenSetSlotNewForeign, by address
    natives,        \* the native objects: host-owned ones and those embedded in wrappers
    slots,          \* the runtime's API slots
    lastUnwrap,     \* history: the last read of a foreign object out of a slot
    methodObjs,     \* the Method instances: {state, vm, method, variable}
    handleReleases, \* per WrenHandle made, the number of wrenReleaseHandle calls on it
    hostHandles,    \* receiver handles the host has made and not yet handed to a Method
    ownedHandles,   \* history: the handles a Method instance came to own
    movedFrom,      \* history: the Method instances last used as the source of a move
    dtorReleases,   \* history: per destroyed Method, the releases its destructor made
    vmObjs,         \* the VM instances: {state, vm}
    rtFrees,        \* per runtime made, the wrenFreeVM and delete BoundState calls on it
    vmMovedFrom,    \* history: the VM instances last used as the source of a move
    vmDtorFrees,    \* history: per destroyed VM, the runtimes its destructor freed
    lastExec,       \* history: the last executeString / executeModule call
    lastCall,       \* history: the last Method::operator() call
    numCalls,       \* history: the number of calls made from the host into the runtime
    lastInvoke,     \* history: the last call of a ForeignMethodWrapper adapter
    values,         \* the Value instances: {state, type, string, storage}
    strBufs,        \* per string buffer made by VM::reallocateFn: {text, frees}
    memberOf,       \* per native object that is a field of another: the object holding it
    written,        \* history: per native object, the argument last given for its field, and by what
    lastGet         \* history: the last field getter call

dispatchVars == <<boundState, registered, numRegs, lookup>>
typeVars == <<typeIdCounter, typeIds, classNames, moduleNames, requestOrder, lastIdOf,
              bindLog, firstBind>>
foreignVars == <<heap, natives, slots, lastUnwrap>>
methodVars == <<methodObjs, handleReleases, hostHandles, ownedHandles, movedFrom, dtorReleases>>
vmVars == <<vmObjs, rtFrees, vmMovedFrom, vmDtorFrees>>
callVars == <<lastExec, lastCall, numCalls, lastInvoke>>
valueVars == <<values, strBufs>>
fieldVars == <<memberOf, written, lastGet>>
protocolVars == <<callVars, valueVars, fieldVars>>
vars == <<aborted, dispatchVars, hashed, typeVars, foreignVars, methodVars, vmVars,
          protocolVars>>

----------------------------------------------------------------------------
(* Bounds and input sets *)

MaxRegs == 2
MaxHashed == 2
MaxObjs == 2
MaxMethods == 3
MaxVMs == 3
MaxCalls == 2
MaxValues == 3

CharS == 3
Chars == {1, 2, CharS}

Runtimes == {1, 2}
Modules == {<<1>>, <<1, 2>>}
ClassNames == {<<1>>, <<2, 1>>}
Signatures == {<<1>>, <<1, CharS>>}
NativeTypes == {"A", "B", "C"}

\* the inputs of the dispatch specification: the static flag alone already
\* gives two signatures per name
DispatchSignatures == {<<1>>}
DispatchTypes == {"A", "B"}
\* the inputs of the foreign object specification
Slots == 0..1
ForeignTypes == {"A", "B"}
FieldVals == {0, 1}
\* the inputs of the type registry specification
TypeModules == {<<1>>}

nullptr == [fn |-> "nullptr", of |-> "none"]
Adapters == {[fn |-> "call", of |-> "f"], [fn |-> "call", of |-> "g"]}

----------------------------------------------------------------------------
(* Initial state *)

EmptyMap == [k \in {} |-> nullptr]
EmptyBoundState == [methods |-> EmptyMap, classes |-> EmptyMap]

NoLookup == [kind |-> "none", vm |-> 0, key |-> 0, result |-> nullptr]

Uninit == -1

NoName == <<>>
NoIdOf == [type |-> "none", qual |-> "", result |-> Uninit, first |-> FALSE]

InitDispatch ==
    /\ boundState = [v \in Runtimes |-> EmptyBoundState]
    /\ registered = [v \in Runtimes |-> [methods |-> <<>>, classes |-> <<>>]]
    /\ numRegs = 0
    /\ lookup = NoLookup

InitTypes ==
    /\ typeIdCounter = 0
    /\ typeIds = [T \in NativeTypes |-> Uninit]
    /\ classNames = <<>>
    /\ moduleNames = <<>>
    /\ requestOrder = <<>>
    /\ lastIdOf = NoIdOf
    /\ bindLog = {}
    /\ firstBind = [T \in NativeTypes |-> NoName]

NoUnwrap == [op |-> "none", expected |-> Uninit, actual |-> Uninit, proceeded |-> FALSE]
NullSlot == [kind |-> "null", val |-> 0]

InitForeign ==
    /\ heap = <<>>
    /\ natives = <<>>
    /\ slots = [i \in Slots |-> NullSlot]
    /\ lastUnwrap = NoUnwrap

MethodIds == 1..MaxMethods
VMIds == 1..MaxVMs
Unborn == [state |-> "unborn", vm |-> 0, method |-> 0, variable |-> 0]
UnbornVM == [state |-> "unborn", vm |-> 0]

InitMethods ==
    /\ methodObjs = [o \in MethodIds |-> Unborn]
    /\ handleReleases = <<>>
    /\ hostHandles = {}
    /\ ownedHandles = {}
    /\ movedFrom = {}
    /\ dtorReleases = [o \in MethodIds |-> 0]

InitVMs ==
    /\ vmObjs = [o \in VMIds |-> UnbornVM]
    /\ rtFrees = <<>>
    /\ vmMovedFrom = {}
    /\ vmDtorFrees = [o \in VMIds |-> 0]

NoExec == [op |-> "none", vm |-> 0, source |-> "none", phases |-> <<>>, res |-> "none",
           result |-> "none", prev |-> "none"]
NullValue == [type |-> "NULL", string |-> 0, storage |-> 0]
NoCall == [method |-> 0, variable |-> 0, handle |-> 0, args |-> <<>>, trace |-> <<>>,
           before |-> <<>>, atCall |-> <<>>, res |-> "none", slot0 |-> NullSlot,
           value |-> NullValue, execBefore |-> "none"]
NoInvoke == [shape |-> "none", arity |-> 0, void |-> FALSE, receiver |-> 0, read |-> <<>>,
             args |-> <<>>, invoked |-> 0, before |-> <<>>, after |-> <<>>]
NoGet == [object |-> 0, field |-> "none", given |-> 0, result |-> NullSlot]

InitCalls ==
    /\ lastExec = NoExec
    /\ lastCall = NoCall
    /\ numCalls = 0
    /\ lastInvoke = NoInvoke

InitValues ==
    /\ values = <<>>
    /\ strBufs = <<>>

InitFields ==
    /\ memberOf = <<>>
    /\ written = <<>>
    /\ lastGet = NoGet

InitProtocol == InitCalls /\ InitValues /\ InitFields

Init ==
    /\ aborted = FALSE
    /\ InitDispatch
    /\ hashed = {}
    /\ InitTypes
    /\ InitForeign
    /\ InitMethods
    /\ InitVMs
    /\ InitProtocol

----------------------------------------------------------------------------
(* Signature hashing *)

HashBase == Cardinality(Chars) + 1

\* std::hash<std::string>, taken to be collision-free: the bijective
\* base-HashBase numeral of the string.
RECURSIVE StdHash(_)
StdHash(str) ==
    IF str = <<>> THEN 0 ELSE Head(str) + HashBase * StdHash(Tail(str))

hashMethodSignature(module, className, isStatic, signature) ==
    LET qualified == module \o className \o signature
    IN  StdHash(IF isStatic THEN Append(qualified, CharS) ELSE qualified)

hashClassSignature(module, className) ==
    StdHash(module \o className)

----------------------------------------------------------------------------
(* Dispatch registry *)

NullClassMethods == [allocate |-> nullptr, finalize |-> nullptr]
ClassMethods(T) ==
    [allocate |-> [fn |-> "allocate", of |-> T], finalize |-> [fn |-> "finalize", of |-> T]]

\* m[k] = v, the later value replacing an earlier one
MapAssign(m, k, v) == [x \in DOMAIN m \cup {k} |-> IF x = k THEN v ELSE m[x]]

\* std::unordered_map::insert: an existing key keeps its value
MapInsert(m, k, v) == IF k \in DOMAIN m THEN m ELSE m @@ (k :> v)

registerFunctionOverwriting(bs, mod, cName, isStatic, sig, function) ==
    [bs EXCEPT !.methods = MapAssign(@, hashMethodSignature(mod, cName, isStatic, sig), function)]

registerFunction(bs, mod, cName, isStatic, sig, function) ==
    LET hash == hashMethodSignature(mod, cName, isStatic, sig)
    IN  [bs EXCEPT !.methods = MapInsert(@, hash, function)]

registerClass(bs, mod, cName, methods) ==
    LET hash == hashClassSignature(mod, cName)
    IN  [bs EXCEPT !.classes = MapInsert(@, hash, methods)]

foreignMethodProviderNoEndCheck(bs, module, className, isStatic, signature) ==
    LET k == hashMethodSignature(module, className, isStatic, signature)
    IN  IF k \in DOMAIN bs.methods THEN bs.methods[k]
        ELSE IF DOMAIN bs.methods = {} THEN nullptr
        ELSE bs.methods[CHOOSE x \in DOMAIN bs.methods : TRUE]

foreignMethodProvider(bs, module, className, isStatic, signature) ==
    LET k == hashMethodSignature(module, className, isStatic, signature)
    IN  IF k \notin DOMAIN bs.methods THEN nullptr ELSE bs.methods[k]

foreignClassProvider(bs, m, c) ==
    LET k == hashClassSignature(m, c)
    IN  IF k \notin DOMAIN bs.classes THEN NullClassMethods ELSE bs.classes[k]

\* history: the binding is appended to the list kept for (runtime, map, key)
Record(reg, v, map, k, binding) ==
    [reg EXCEPT ![v][map] =
        IF k \in DOMAIN @ THEN [@ EXCEPT ![k] = Append(@, binding)]
        ELSE @ @@ (k :> <<binding>>)]

\* ClassContext::bindFunction, bindCFunction and RegisteredClassContext::bindMethod,
\* bindGetter, bindSetter, bindCFunction all come down to registerFunction.
RegisterFunction(v, m, c, isStatic, sig, f) ==
    /\ ~aborted
    /\ numRegs < MaxRegs
    /\ boundState' = [boundState EXCEPT ![v] = registerFunction(@, m, c, isStatic, sig, f)]
    /\ registered' = Record(registered, v, "methods", hashMethodSignature(m, c, isStatic, sig), f)
    /\ numRegs' = numRegs + 1
    /\ lookup' = NoLookup
    /\ UNCHANGED <<aborted, hashed, typeVars, foreignVars, methodVars, vmVars, protocolVars>>

RegisterClass(v, m, c, T) ==
    /\ ~aborted
    /\ numRegs < MaxRegs
    /\ boundState' = [boundState EXCEPT ![v] = registerClass(@, m, c, ClassMethods(T))]
    /\ registered' = Record(registered, v, "classes", hashClassSignature(m, c), ClassMethods(T))
    /\ numRegs' = numRegs + 1
    /\ lookup' = NoLookup
    /\ UNCHANGED <<aborted, hashed, typeVars, foreignVars, methodVars, vmVars, protocolVars>>

\* the runtime asks for a foreign method
LookupMethod(v, m, c, isStatic, sig) ==
    /\ ~aborted
    /\ lookup' = [kind |-> "methods", vm |-> v,
                  key |-> hashMethodSignature(m, c, isStatic, sig),
                  result |-> foreignMethodProvider(boundState[v], m, c, isStatic, sig)]
    /\ UNCHANGED <<aborted, boundState, registered, numRegs, hashed, typeVars, foreignVars,
                 methodVars, vmVars, protocolVars>>

\* the runtime asks for a foreign class
LookupClass(v, m, c) ==
    /\ ~aborted
    /\ lookup' = [kind |-> "classes", vm |-> v,
                  key |-> hashClassSignature(m, c),
                  result |-> foreignClassProvider(boundState[v], m, c)]
    /\ UNCHANGED <<aborted, boundState, registered, numRegs, hashed, typeVars, foreignVars,
                 methodVars, vmVars, protocolVars>>

----------------------------------------------------------------------------
(* Type identity registry *)

Qualifiers == {"", "const&"}
\* std::decay_t of the type expression <<T, qualifier>>
decay(texpr) == texpr[1]

getTypeIdImplNoCache(T, counter, ids) ==
    [id |-> counter, counter |-> counter + 1, ids |-> [ids EXCEPT ![T] = counter]]

\* static uint32_t id = typeId()++;  the initialiser runs on the first call only
getTypeIdImpl(T, counter, ids) ==
    IF ids[T] = Uninit
    THEN [id |-> counter, counter |-> counter + 1, ids |-> [ids EXCEPT ![T] = counter]]
    ELSE [id |-> ids[T], counter |-> counter, ids |-> ids]

getTypeId(texpr, counter, ids) == getTypeIdImpl(decay(texpr), counter, ids)

\* assert(storage.size() == index); storage.push_back(name)
storeClassName(storage, index, className) ==
    IF Len(storage) # index THEN [ok |-> FALSE, storage |-> storage]
    ELSE [ok |-> TRUE, storage |-> Append(storage, className)]

storeModuleName(storage, index, moduleName) ==
    IF Len(storage) # index THEN [ok |-> FALSE, storage |-> storage]
    ELSE [ok |-> TRUE, storage |-> Append(storage, moduleName)]

\* assert(id < storage.size()); return storage[id]
getWrenClassString(id, storage) ==
    IF id < Len(storage) THEN [ok |-> TRUE, name |-> storage[id + 1]]
    ELSE [ok |-> FALSE, name |-> NoName]

getWrenModuleString(id, storage) ==
    IF id < Len(storage) THEN [ok |-> TRUE, name |-> storage[id + 1]]
    ELSE [ok |-> FALSE, name |-> NoName]

SeqRange(s) == {s[i] : i \in 1..Len(s)}

Requested(order, T) == IF T \in SeqRange(order) THEN order ELSE Append(order, T)

\* the host (or a converter, or a wrapper's typeId()) asks for the id of a type
IdOf(T, q) ==
    LET g == getTypeId(<<T, q>>, typeIdCounter, typeIds)
    IN  /\ ~aborted
        /\ typeIdCounter' = g.counter
        /\ typeIds' = g.ids
        /\ requestOrder' = Requested(requestOrder, T)
        /\ lastIdOf' = [type |-> T, qual |-> q, result |-> g.id,
                        first |-> T \notin SeqRange(requestOrder)]
        /\ UNCHANGED <<aborted, dispatchVars, hashed, classNames, moduleNames,
                       bindLog, firstBind, foreignVars, methodVars, vmVars, protocolVars>>

\* getWrenModuleString<T>() and getWrenClassString<T>(), as setInSlot calls them
NameOf(T) ==
    LET g1 == getTypeId(<<T, "">>, typeIdCounter, typeIds)
        mod == getWrenModuleString(g1.id, moduleNames)
        g2 == getTypeId(<<T, "">>, g1.counter, g1.ids)
        cls == getWrenClassString(g2.id, classNames)
    IN  /\ ~aborted
        /\ typeIdCounter' = (IF mod.ok THEN g2.counter ELSE g1.counter)
        /\ typeIds' = (IF mod.ok THEN g2.ids ELSE g1.ids)
        /\ requestOrder' = Requested(requestOrder, T)
        /\ aborted' = ~(mod.ok /\ cls.ok)
        /\ UNCHANGED <<dispatchVars, hashed, classNames, moduleNames, lastIdOf,
                       bindLog, firstBind, foreignVars, methodVars, vmVars, protocolVars>>

\* ModuleContext::bindClass<T, Args...>(className) on a module context of
\* runtime v named m
BindClass(v, T, m, c) ==
    LET g == getTypeId(<<T, "">>, typeIdCounter, typeIds)
        store == Len(classNames) = g.id
        sizesAgree == Len(classNames) = Len(moduleNames)
        g1 == getTypeId(<<T, "">>, g.counter, g.ids)
        mods == storeModuleName(moduleNames, g1.id, m)
        g2 == getTypeId(<<T, "">>, g1.counter, g1.ids)
        clss == storeClassName(classNames, g2.id, c)
        ok == store => (sizesAgree /\ mods.ok /\ clss.ok)
    IN  /\ ~aborted
        /\ numRegs < MaxRegs
        /\ boundState' = [boundState EXCEPT ![v] = registerClass(@, m, c, ClassMethods(T))]
        /\ registered' = Record(registered, v, "classes", hashClassSignature(m, c),
                                ClassMethods(T))
        /\ numRegs' = numRegs + 1
        /\ lookup' = NoLookup
        /\ typeIdCounter' = (IF ~(store /\ sizesAgree) THEN g.counter
                             ELSE IF mods.ok THEN g2.counter ELSE g1.counter)
        /\ typeIds' = (IF ~(store /\ sizesAgree) THEN g.ids
                       ELSE IF mods.ok THEN g2.ids ELSE g1.ids)
        /\ requestOrder' = Requested(requestOrder, T)
        /\ moduleNames' = (IF store /\ sizesAgree THEN mods.storage ELSE moduleNames)
        /\ classNames' = (IF store /\ sizesAgree /\ mods.ok THEN clss.storage ELSE classNames)
        /\ aborted' = ~ok
        /\ bindLog' = (IF ok THEN bindLog \cup {[type |-> T, vm |-> v, module |-> m, class |-> c]}
                       ELSE bindLog)
        /\ firstBind' = (IF firstBind[T] = NoName THEN [firstBind EXCEPT ![T] = <<m, c>>]
                         ELSE firstBind)
        /\ UNCHANGED <<hashed, lastIdOf, foreignVars, methodVars, vmVars, protocolVars>>

NextTypes ==
    \/ \E T \in NativeTypes, q \in Qualifiers : IdOf(T, q)
    \/ \E T \in NativeTypes : NameOf(T)
    \/ \E v \in Runtimes, T \in NativeTypes, m \in TypeModules, c \in ClassNames :
          BindClass(v, T, m, c)

SpecTypes == Init /\ [][NextTypes]_vars

PositionOf(order, T) == CHOOSE i \in 1..Len(order) : order[i] = T

\* C3: the ids handed out are exactly 0..n-1 for the n types requested so
\* far, each type's id is the number of types first requested before it,
\* and a later request returns the id of the first.
TypeIdsDenseAndStable ==
    /\ \A i \in 1..Len(requestOrder) : typeIds[requestOrder[i]] = i - 1
    /\ \A T \in NativeTypes : T \notin SeqRange(requestOrder) => typeIds[T] = Uninit
    /\ {typeIds[T] : T \in SeqRange(requestOrder)} = 0..(Len(requestOrder) - 1)
    /\ Cardinality(SeqRange(requestOrder)) = Len(requestOrder)
    /\ lastIdOf.type # "none" =>
          /\ lastIdOf.type \in SeqRange(requestOrder)
          /\ lastIdOf.result = PositionOf(requestOrder, lastIdOf.type) - 1

\* a repeated request, through a qualified type, for the second of three types
WitnessRepeatedIdOf ==
    /\ Len(requestOrder) = 3
    /\ lastIdOf.type # "none"
    /\ ~lastIdOf.first
    /\ lastIdOf.qual = "const&"
    /\ lastIdOf.result = 1

NameBound(T) == typeIds[T] # Uninit /\ typeIds[T] < Len(classNames)
    /\ typeIds[T] < Len(moduleNames)

\* C10: once bindClass<T>(className) on module m has returned, nameOf<T>()
\* succeeds and gives the pair of the first bindClass<T>, and the class
\* lookup of (m, className) in that VM gives T's allocate/finalize pair.
BindClassEstablishesName ==
    \A b \in bindLog :
        /\ NameBound(b.type)
        /\ <<moduleNames[typeIds[b.type] + 1], classNames[typeIds[b.type] + 1]>>
              = firstBind[b.type]
        /\ foreignClassProvider(boundState[b.vm], b.module, b.class) = ClassMethods(b.type)

----------------------------------------------------------------------------
(* Name binding: every path that stores a name for a native type *)

NameTypes == {"A", "B"}
NameRuntimes == {1}

\* bindTypeToModuleName<T>(moduleName)
BindTypeToModuleName(T, m) ==
    LET g == getTypeId(<<T, "">>, typeIdCounter, typeIds)
        r == storeModuleName(moduleNames, g.id, m)
    IN  /\ ~aborted
        /\ typeIdCounter' = g.counter
        /\ typeIds' = g.ids
        /\ requestOrder' = Requested(requestOrder, T)
        /\ moduleNames' = r.storage
        /\ aborted' = ~r.ok
        /\ UNCHANGED <<dispatchVars, hashed, classNames, lastIdOf, bindLog, firstBind,
                       foreignVars, methodVars, vmVars, protocolVars>>

\* bindTypeToClassName<T>(className)
BindTypeToClassName(T, c) ==
    LET g == getTypeId(<<T, "">>, typeIdCounter, typeIds)
        r == storeClassName(classNames, g.id, c)
    IN  /\ ~aborted
        /\ typeIdCounter' = g.counter
        /\ typeIds' = g.ids
        /\ requestOrder' = Requested(requestOrder, T)
        /\ classNames' = r.storage
        /\ aborted' = ~r.ok
        /\ UNCHANGED <<dispatchVars, hashed, moduleNames, lastIdOf, bindLog, firstBind,
                       foreignVars, methodVars, vmVars, protocolVars>>

NextNames ==
    \/ \E T \in NameTypes : IdOf(T, "")
    \/ \E T \in NameTypes, m \in TypeModules : BindTypeToModuleName(T, m)
    \/ \E T \in NameTypes, c \in ClassNames : BindTypeToClassName(T, c)
    \/ \E v \in NameRuntimes, T \in NameTypes, m \in TypeModules, c \in ClassNames :
          BindClass(v, T, m, c)

SpecNames == Init /\ [][NextNames]_vars

\* idOf<T>() as the next call would return it
NextIdOf(T) == getTypeId(<<T, "">>, typeIdCounter, typeIds).id

NamesKept == classNames' = classNames /\ moduleNames' = moduleNames

\* C11: a call that binds a name for T while T already has a name binding,
\* or while the name table's length differs from idOf<T>(), aborts and
\* leaves the name tables as they were; this holds of bindClass<T> and of
\* bindTypeToModuleName<T> / bindTypeToClassName<T> alike.
NameBindingFailsFast ==
    [][/\ \A v \in NameRuntimes, T \in NameTypes, m \in TypeModules, c \in ClassNames :
             (BindClass(v, T, m, c) /\ (NameBound(T) \/ Len(classNames) # NextIdOf(T)))
                 => (aborted' /\ NamesKept)
       /\ \A T \in NameTypes, m \in TypeModules :
             (BindTypeToModuleName(T, m) /\ Len(moduleNames) # NextIdOf(T))
                 => (aborted' /\ NamesKept)
       /\ \A T \in NameTypes, c \in ClassNames :
             (BindTypeToClassName(T, c) /\ Len(classNames) # NextIdOf(T))
                 => (aborted' /\ NamesKept)]_vars

----------------------------------------------------------------------------
(* Specification of the dispatch registry *)

Next ==
    \/ \E v \in Runtimes, m \in Modules, c \in ClassNames, st \in BOOLEAN,
          sig \in DispatchSignatures, f \in Adapters : RegisterFunction(v, m, c, st, sig, f)
    \/ \E v \in Runtimes, m \in Modules, c \in ClassNames, T \in DispatchTypes :
          RegisterClass(v, m, c, T)
    \/ \E v \in Runtimes, m \in Modules, c \in ClassNames, st \in BOOLEAN,
          sig \in DispatchSignatures : LookupMethod(v, m, c, st, sig)
    \/ \E v \in Runtimes, m \in Modules, c \in ClassNames : LookupClass(v, m, c)

Spec == Init /\ [][Next]_vars

\* the bindings registered so far in runtime v, map `map`, under key k
RegisteredUnder(v, map, k) ==
    IF k \in DOMAIN registered[v][map] THEN registered[v][map][k] ELSE <<>>

LookupRegs == RegisteredUnder(lookup.vm, lookup.kind, lookup.key)

Unbound == IF lookup.kind = "methods" THEN nullptr ELSE NullClassMethods

\* C7 as written: a later registration under an occupied key overwrites the
\* prior binding, so the next lookup of the key returns the latest binding.
LaterRegistrationOverwrites ==
    (lookup.kind # "none" /\ Len(LookupRegs) > 0)
        => lookup.result = LookupRegs[Len(LookupRegs)]

\* C7 amended: a registration under an occupied key is silently discarded; the
\* next lookup of the key returns the binding registered first.
FirstRegistrationWins ==
    (lookup.kind # "none" /\ Len(LookupRegs) > 0)
        => lookup.result = LookupRegs[1]

\* a lookup of a key registered twice with different bindings
WitnessReRegisteredLookup ==
    /\ lookup.kind # "none"
    /\ Len(LookupRegs) = 2
    /\ LookupRegs[1] # LookupRegs[2]

\* what the last lookup returned, against the history of registrations
LookupResultOK ==
    lookup.kind # "none" =>
        /\ Len(LookupRegs) = 0 => lookup.result = Unbound
        /\ Len(LookupRegs) > 0 =>
              (lookup.result # Unbound /\ lookup.result \in SeqRange(LookupRegs))

\* C8: a lookup of a key never registered in that VM returns the null
\* adapter (null allocate/finalize pair); a lookup of a registered key
\* returns a non-null binding registered under it; no lookup changes a map.
LookupMissIsNullAndPure ==
    /\ []LookupResultOK
    /\ [][lookup' # NoLookup => boundState' = boundState]_vars

\* a miss in one VM of a key that the other VM has bound
WitnessLookupMiss ==
    /\ lookup.kind = "methods"
    /\ Len(LookupRegs) = 0
    /\ \E v \in Runtimes : lookup.key \in DOMAIN boundState[v].methods

----------------------------------------------------------------------------
(* Foreign object model *)

\* The registration phase is over: the host has bound A, B and C, in this
\* order, as classes "a", "b" and "s" of module "a" in runtime 1, and owns
\* one native object of each foreign type.
TypeOrder == <<"A", "B", "C">>
BoundModule == <<1>>
BoundClass(i) == <<i>>

InitRegistered ==
    /\ boundState = [v \in Runtimes |->
          IF v = 1
          THEN [methods |-> EmptyMap,
                classes |-> (hashClassSignature(BoundModule, BoundClass(1)) :> ClassMethods("A"))
                         @@ (hashClassSignature(BoundModule, BoundClass(2)) :> ClassMethods("B"))
                         @@ (hashClassSignature(BoundModule, BoundClass(3)) :> ClassMethods("C"))]
          ELSE EmptyBoundState]
    /\ registered = [v \in Runtimes |->
          IF v = 1
          THEN [methods |-> <<>>,
                classes |-> (hashClassSignature(BoundModule, BoundClass(1)) :> <<ClassMethods("A")>>)
                         @@ (hashClassSignature(BoundModule, BoundClass(2)) :> <<ClassMethods("B")>>)
                         @@ (hashClassSignature(BoundModule, BoundClass(3)) :> <<ClassMethods("C")>>)]
          ELSE [methods |-> <<>>, classes |-> <<>>]]
    /\ numRegs = Len(TypeOrder)
    /\ lookup = NoLookup
    /\ typeIdCounter = Len(TypeOrder)
    /\ typeIds = [T \in NativeTypes |-> (CHOOSE i \in 1..Len(TypeOrder) : TypeOrder[i] = T) - 1]
    /\ classNames = [i \in 1..Len(TypeOrder) |-> BoundClass(i)]
    /\ moduleNames = [i \in 1..Len(TypeOrder) |-> BoundModule]
    /\ requestOrder = TypeOrder
    /\ lastIdOf = NoIdOf
    /\ bindLog = {[type |-> TypeOrder[i], vm |-> 1, module |-> BoundModule, class |-> BoundClass(i)] :
                    i \in 1..Len(TypeOrder)}
    /\ firstBind = [T \in NativeTypes |->
          <<BoundModule, BoundClass(CHOOSE i \in 1..Len(TypeOrder) : TypeOrder[i] = T)>>]

InitForeignSpec ==
    /\ aborted = FALSE
    /\ hashed = {}
    /\ InitRegistered
    /\ heap = <<>>
    /\ natives = <<[type |-> "A", storage |-> "host", dtors |-> 0, field |-> 0],
                   [type |-> "B", storage |-> "host", dtors |-> 0, field |-> 0]>>
    /\ slots = [i \in Slots |-> NullSlot]
    /\ lastUnwrap = NoUnwrap
    /\ InitMethods
    /\ InitVMs
    /\ InitProtocol

\* getTypeId<T>() once every type has its id (the registry no longer changes)
IdOfType(texpr) == getTypeId(texpr, typeIdCounter, typeIds).id

\* ForeignObjectValue<T>::typeId() and ForeignObjectPtr<T>::typeId()
WrapperTypeId(w) == IdOfType(<<w.type, "">>)

\* ~ForeignObjectValue(): obj->~T() on the embedded object
ForeignObjectValueDtor(nat, w) == [nat EXCEPT ![w.target].dtors = @ + 1]

ForeignObjectPtrDtorDeletes(nat, w) == [nat EXCEPT ![w.target].dtors = @ + 1]

\* ~ForeignObjectPtr() = default: the pointee is left alone
ForeignObjectPtrDtor(nat, w) == nat

\* the virtual ~ForeignObject()
ForeignObjectDtor(nat, w) ==
    IF w.variant = "Value" THEN ForeignObjectValueDtor(nat, w) ELSE ForeignObjectPtrDtor(nat, w)

\* finalize<T>(bytes): T plays no part
finalize(T, nat, w) == ForeignObjectDtor(nat, w)

ForeignRef(o) == [kind |-> "foreign", val |-> o]
InSlots(o) == \E i \in Slots : slots[i] = ForeignRef(o)
HoldsForeign(slot) == slots[slot].kind = "foreign"
NamesBound(T) ==
    /\ getWrenModuleString(IdOfType(<<T, "">>), moduleNames).ok
    /\ getWrenClassString(IdOfType(<<T, "">>), classNames).ok

\* allocate<T>(vm): wrenSetSlotNewForeign(vm, 0, 0, ...) and construct<T>
Allocate(T) ==
    /\ ~aborted
    /\ Len(heap) < MaxObjs
    /\ natives' = Append(natives, [type |-> T, storage |-> "embedded", dtors |-> 0, field |-> 0])
    /\ heap' = Append(heap, [variant |-> "Value", type |-> T, target |-> Len(natives) + 1,
                             finalized |-> FALSE])
    /\ slots' = [slots EXCEPT ![0] = ForeignRef(Len(heap) + 1)]
    /\ UNCHANGED <<aborted, dispatchVars, hashed, typeVars, lastUnwrap, methodVars, vmVars, protocolVars>>

\* ForeignObjectValue<T>::setInSlot(vm, slot, t): WrenSlotAPI<T>::set and
\* setSlotForeignValue; t is a T whose field holds fv
SetInSlotValue(T, slot, fv) ==
    /\ ~aborted
    /\ Len(heap) < MaxObjs
    /\ IF NamesBound(T)
       THEN /\ natives' = Append(natives, [type |-> T, storage |-> "embedded", dtors |-> 0,
                                           field |-> fv])
            /\ heap' = Append(heap, [variant |-> "Value", type |-> T,
                                     target |-> Len(natives) + 1, finalized |-> FALSE])
            /\ slots' = [slots EXCEPT ![slot] = ForeignRef(Len(heap) + 1)]
            /\ UNCHANGED aborted
       ELSE /\ aborted' = TRUE
            /\ UNCHANGED <<natives, heap, slots>>
    /\ UNCHANGED <<dispatchVars, hashed, typeVars, lastUnwrap, methodVars, vmVars, protocolVars>>

\* ForeignObjectPtr<T>::setInSlot(vm, slot, obj): WrenSlotAPI<T&>::set,
\* WrenSlotAPI<T*>::set, WrenSlotAPI<const T*>::set and setSlotForeignPtr;
\* obj points to the host's native object n
SetInSlotPtr(T, slot, n) ==
    /\ ~aborted
    /\ Len(heap) < MaxObjs
    /\ n \in 1..Len(natives)
    /\ natives[n].type = T /\ natives[n].storage = "host"
    /\ IF NamesBound(T)
       THEN /\ heap' = Append(heap, [variant |-> "Ptr", type |-> T, target |-> n,
                                     finalized |-> FALSE])
            /\ slots' = [slots EXCEPT ![slot] = ForeignRef(Len(heap) + 1)]
            /\ UNCHANGED aborted
       ELSE /\ aborted' = TRUE
            /\ UNCHANGED <<heap, slots>>
    /\ UNCHANGED <<natives, dispatchVars, hashed, typeVars, lastUnwrap, methodVars, vmVars, protocolVars>>

\* WrenSlotAPI<double>::set
SetSlotDouble(slot, val) ==
    /\ ~aborted
    /\ slots' = [slots EXCEPT ![slot] = [kind |-> "num", val |-> val]]
    /\ UNCHANGED <<aborted, heap, natives, dispatchVars, hashed, typeVars, lastUnwrap, methodVars, vmVars, protocolVars>>

\* the runtime reclaims a wrapper no slot refers to and calls the finalize<T>
\* bound for its class
Finalize(o, T) ==
    /\ ~aborted
    /\ o \in 1..Len(heap)
    /\ ~heap[o].finalized
    /\ ~InSlots(o)
    /\ natives' = finalize(T, natives, heap[o])
    /\ heap' = [heap EXCEPT ![o].finalized = TRUE]
    /\ UNCHANGED <<aborted, slots, dispatchVars, hashed, typeVars, lastUnwrap, methodVars, vmVars, protocolVars>>

\* WrenSlotAPI<T>::get, <T&>, <const T&>, <T*>, <const T*>: each asserts
\* obj->typeId() == getTypeId<T>()
SlotGet(q, T, slot) ==
    /\ ~aborted
    /\ HoldsForeign(slot)
    /\ LET expected == IdOfType(<<T, q>>)
           actual == WrapperTypeId(heap[slots[slot].val])
       IN  /\ lastUnwrap' = [op |-> "get", expected |-> expected, actual |-> actual,
                             proceeded |-> actual = expected]
           /\ aborted' = (actual # expected)
    /\ UNCHANGED <<heap, natives, slots, dispatchVars, hashed, typeVars, methodVars, vmVars, protocolVars>>

\* ForeignMethodWrapper<void (C::*)()>::call and its const variant: invokeHelper
\* takes the receiver out of slot 0 and calls the member function on it
MemberCall(C, isConst) ==
    /\ ~aborted
    /\ HoldsForeign(0)
    /\ lastUnwrap' = [op |-> "member", expected |-> IdOfType(<<C, "">>),
                      actual |-> WrapperTypeId(heap[slots[0].val]), proceeded |-> TRUE]
    /\ UNCHANGED <<aborted, heap, natives, slots, dispatchVars, hashed, typeVars, methodVars, vmVars, protocolVars>>

\* what reading the field through a T* gives: the field of a T, anything
\* when the object is not a T
FieldRead(T, n) == IF natives[n].type = T THEN {natives[n].field} ELSE FieldVals

\* propertyGetter<T, double, Field>(vm)
PropertyGetter(T) ==
    /\ ~aborted
    /\ HoldsForeign(0)
    /\ LET w == heap[slots[0].val]
       IN  /\ lastUnwrap' = [op |-> "getter", expected |-> IdOfType(<<T, "">>),
                             actual |-> WrapperTypeId(w), proceeded |-> TRUE]
           /\ \E val \in FieldRead(T, w.target) :
                 slots' = [slots EXCEPT ![0] = [kind |-> "num", val |-> val]]
    /\ UNCHANGED <<aborted, heap, natives, dispatchVars, hashed, typeVars, methodVars, vmVars, protocolVars>>

\* propertySetter<T, double, Field>(vm)
PropertySetter(T) ==
    /\ ~aborted
    /\ HoldsForeign(0)
    /\ slots[1].kind = "num"
    /\ LET w == heap[slots[0].val]
       IN  /\ lastUnwrap' = [op |-> "setter", expected |-> IdOfType(<<T, "">>),
                             actual |-> WrapperTypeId(w), proceeded |-> TRUE]
           /\ natives' = [natives EXCEPT ![w.target].field = slots[1].val]
    /\ UNCHANGED <<aborted, heap, slots, dispatchVars, hashed, typeVars, methodVars, vmVars, protocolVars>>

NextForeign ==
    \/ \E T \in ForeignTypes : Allocate(T)
    \/ \E T \in ForeignTypes, slot \in Slots, fv \in FieldVals : SetInSlotValue(T, slot, fv)
    \/ \E T \in ForeignTypes, slot \in Slots, n \in 1..Len(natives) : SetInSlotPtr(T, slot, n)
    \/ \E slot \in Slots, val \in FieldVals : SetSlotDouble(slot, val)
    \/ \E o \in 1..Len(heap), T \in ForeignTypes : Finalize(o, T)
    \/ \E q \in Qualifiers, T \in ForeignTypes, slot \in Slots : SlotGet(q, T, slot)
    \/ \E C \in ForeignTypes, isConst \in BOOLEAN : MemberCall(C, isConst)
    \/ \E T \in ForeignTypes : PropertyGetter(T)
    \/ \E T \in ForeignTypes : PropertySetter(T)

SpecForeign == InitForeignSpec /\ [][NextForeign]_vars

\* C1: the embedded object of an Owned wrapper has had its destructor run
\* once if the wrapper was finalized and not at all otherwise; finalizing a
\* Borrowed wrapper runs no destructor, so a host object's destructor has
\* not run.
OwnedDestroyedOnceBorrowedNever ==
    /\ \A o \in 1..Len(heap) :
          heap[o].variant = "Value" =>
              natives[heap[o].target].dtors = (IF heap[o].finalized THEN 1 ELSE 0)
    /\ \A n \in 1..Len(natives) :
          natives[n].storage = "host" => natives[n].dtors = 0

\* an Owned and a Borrowed wrapper have both been finalized
WitnessBothFinalized ==
    \E o, p \in 1..Len(heap) :
        /\ heap[o].variant = "Value" /\ heap[o].finalized
        /\ heap[p].variant = "Ptr" /\ heap[p].finalized

\* C2: no read of a foreign object out of a slot goes ahead on an object
\* whose type id differs from the expected one.
UnwrapChecksTypeId ==
    lastUnwrap.proceeded => lastUnwrap.expected = lastUnwrap.actual

----------------------------------------------------------------------------
(* The hash functions on their own *)

HashMethod(m, c, isStatic, sig) ==
    /\ Cardinality(hashed) < MaxHashed
    /\ hashed' = hashed \cup {[kind |-> "method", tuple |-> <<m, c, isStatic, sig>>,
                               key |-> hashMethodSignature(m, c, isStatic, sig)]}
    /\ UNCHANGED <<aborted, dispatchVars, typeVars, foreignVars, methodVars, vmVars, protocolVars>>

HashClass(m, c) ==
    /\ Cardinality(hashed) < MaxHashed
    /\ hashed' = hashed \cup {[kind |-> "class", tuple |-> <<m, c>>,
                               key |-> hashClassSignature(m, c)]}
    /\ UNCHANGED <<aborted, dispatchVars, typeVars, foreignVars, methodVars, vmVars, protocolVars>>

NextHash ==
    \/ \E m \in Modules, c \in ClassNames, st \in BOOLEAN, sig \in Signatures :
          HashMethod(m, c, st, sig)
    \/ \E m \in Modules, c \in ClassNames : HashClass(m, c)

SpecHash == Init /\ [][NextHash]_vars

\* C9: distinct (module, class, static, signature) tuples have distinct
\* method keys, and distinct (module, class) pairs distinct class keys.
KeysUniquePerTuple ==
    \A x, y \in hashed :
        (x.kind = y.kind /\ x.tuple # y.tuple) => x.key # y.key

----------------------------------------------------------------------------
(* Method: the handle to a script method *)

\* the VM instance every Method of this specification is made by
TheVM == 1

\* Method::Method(VM*, WrenHandle* variable, WrenHandle* method)
MethodCtor(vm, variable, method) ==
    [state |-> "live", vm |-> vm, method |-> method, variable |-> variable]

\* Method() = default
MethodDefaultCtor == [state |-> "live", vm |-> 0, method |-> 0, variable |-> 0]

MethodMoveCtorKeepsSource(other) ==
    [self |-> MethodCtor(other.vm, other.variable, other.method), other |-> other]

\* Method::Method(Method&& other)
MethodMoveCtor(other) ==
    [self |-> MethodCtor(other.vm, other.variable, other.method),
     other |-> [other EXCEPT !.vm = 0, !.method = 0, !.variable = 0]]

\* Method::operator=(Method&& rhs); same: &rhs == this
MethodMoveAssign(self, rhs, same) ==
    IF same THEN [self |-> self, rhs |-> rhs]
    ELSE [self |-> [self EXCEPT !.vm = rhs.vm, !.method = rhs.method,
                                !.variable = rhs.variable],
          rhs |-> [rhs EXCEPT !.vm = 0, !.method = 0, !.variable = 0]]

\* Method::operator bool()
MethodBool(self) == self.variable # 0 /\ self.method # 0

\* wrenReleaseHandle
ReleaseHandle(releases, h) == [releases EXCEPT ![h] = @ + 1]

\* Method::~Method(): ok is the assert, n the number of handles released
MethodDtor(self, releases) ==
    IF self.vm # 0
    THEN IF self.method # 0 /\ self.variable # 0
         THEN [ok |-> TRUE, n |-> 2,
               releases |-> ReleaseHandle(ReleaseHandle(releases, self.method), self.variable)]
         ELSE [ok |-> FALSE, n |-> 0, releases |-> releases]
    ELSE [ok |-> TRUE, n |-> 0, releases |-> releases]

\* VM::method(module, variable, signature): wrenGetSlotHandle and
\* wrenMakeCallHandle make two new handles
VMMethod(o) ==
    LET variable == Len(handleReleases) + 1
        handle == Len(handleReleases) + 2
    IN  /\ ~aborted
        /\ methodObjs[o].state = "unborn"
        /\ handleReleases' = handleReleases \o <<0, 0>>
        /\ methodObjs' = [methodObjs EXCEPT ![o] = MethodCtor(TheVM, variable, handle)]
        /\ ownedHandles' = ownedHandles \cup {variable, handle}
        /\ UNCHANGED <<aborted, hostHandles, movedFrom, dtorReleases,
                       dispatchVars, hashed, typeVars, foreignVars, vmVars, protocolVars>>

\* the host makes a receiver handle of its own (wrenGetSlotHandle)
HostMakeHandle ==
    /\ ~aborted
    /\ hostHandles = {}
    /\ \E o \in MethodIds : methodObjs[o].state = "unborn"
    /\ handleReleases' = Append(handleReleases, 0)
    /\ hostHandles' = {Len(handleReleases) + 1}
    /\ UNCHANGED <<aborted, methodObjs, ownedHandles, movedFrom, dtorReleases,
                   dispatchVars, hashed, typeVars, foreignVars, vmVars, protocolVars>>

\* VM::method(WrenHandle* variable, signature): the host hands its handle over
VMMethodFromHandle(o, variable) ==
    LET handle == Len(handleReleases) + 1
    IN  /\ ~aborted
        /\ methodObjs[o].state = "unborn"
        /\ variable \in hostHandles
        /\ handleReleases' = Append(handleReleases, 0)
        /\ methodObjs' = [methodObjs EXCEPT ![o] = MethodCtor(TheVM, variable, handle)]
        /\ hostHandles' = hostHandles \ {variable}
        /\ ownedHandles' = ownedHandles \cup {variable, handle}
        /\ UNCHANGED <<aborted, movedFrom, dtorReleases,
                       dispatchVars, hashed, typeVars, foreignVars, vmVars, protocolVars>>

MethodDefault(o) ==
    /\ ~aborted
    /\ methodObjs[o].state = "unborn"
    /\ methodObjs' = [methodObjs EXCEPT ![o] = MethodDefaultCtor]
    /\ UNCHANGED <<aborted, handleReleases, hostHandles, ownedHandles, movedFrom, dtorReleases,
                   dispatchVars, hashed, typeVars, foreignVars, vmVars, protocolVars>>

MethodMoveConstruct(dst, src) ==
    LET r == MethodMoveCtor(methodObjs[src])
    IN  /\ ~aborted
        /\ methodObjs[dst].state = "unborn"
        /\ methodObjs[src].state = "live"
        /\ methodObjs' = [methodObjs EXCEPT ![dst] = r.self, ![src] = r.other]
        /\ movedFrom' = movedFrom \cup {src}
        /\ UNCHANGED <<aborted, handleReleases, hostHandles, ownedHandles, dtorReleases,
                       dispatchVars, hashed, typeVars, foreignVars, vmVars, protocolVars>>

MethodMoveAssignment(dst, src) ==
    LET r == MethodMoveAssign(methodObjs[dst], methodObjs[src], dst = src)
    IN  /\ ~aborted
        /\ methodObjs[dst].state = "live"
        /\ methodObjs[src].state = "live"
        /\ methodObjs' = (IF dst = src THEN [methodObjs EXCEPT ![dst] = r.self]
                          ELSE [methodObjs EXCEPT ![dst] = r.self, ![src] = r.rhs])
        /\ movedFrom' = (IF dst = src THEN movedFrom ELSE (movedFrom \cup {src}) \ {dst})
        /\ UNCHANGED <<aborted, handleReleases, hostHandles, ownedHandles, dtorReleases,
                       dispatchVars, hashed, typeVars, foreignVars, vmVars, protocolVars>>

MethodDestroy(o) ==
    LET r == MethodDtor(methodObjs[o], handleReleases)
    IN  /\ ~aborted
        /\ methodObjs[o].state = "live"
        /\ methodObjs' = [methodObjs EXCEPT ![o].state = "dead"]
        /\ handleReleases' = r.releases
        /\ dtorReleases' = [dtorReleases EXCEPT ![o] = r.n]
        /\ aborted' = ~r.ok
        /\ UNCHANGED <<hostHandles, ownedHandles, movedFrom,
                       dispatchVars, hashed, typeVars, foreignVars, vmVars, protocolVars>>

NextMethod ==
    \/ \E o \in MethodIds : VMMethod(o)
    \/ HostMakeHandle
    \/ \E o \in MethodIds, h \in hostHandles : VMMethodFromHandle(o, h)
    \/ \E o \in MethodIds : MethodDefault(o)
    \/ \E dst, src \in MethodIds : MethodMoveConstruct(dst, src)
    \/ \E dst, src \in MethodIds : MethodMoveAssignment(dst, src)
    \/ \E o \in MethodIds : MethodDestroy(o)

SpecMethod == Init /\ [][NextMethod]_vars

NoLiveMethod == \A o \in MethodIds : methodObjs[o].state # "live"

\* C4: every handle a Method came to own is released exactly once: never
\* twice, and not zero times once every Method is destroyed.
HandlesReleasedExactlyOnce ==
    /\ \A h \in ownedHandles : handleReleases[h] <= 1
    /\ NoLiveMethod => \A h \in ownedHandles : handleReleases[h] = 1

\* C5: a moved-from Method holds no VM, no receiver handle and no call
\* handle and converts to false, and its destructor releases nothing.
MovedFromIsInert ==
    \A o \in movedFrom :
        /\ methodObjs[o].vm = 0
        /\ methodObjs[o].method = 0
        /\ methodObjs[o].variable = 0
        /\ ~MethodBool(methodObjs[o])
        /\ methodObjs[o].state = "dead" => dtorReleases[o] = 0

\* a moved-from Method has been destroyed while another Method still holds
\* handles and none has been released
WitnessMovedFromDestroyed ==
    /\ \E o \in movedFrom : methodObjs[o].state = "dead"
    /\ \E p \in MethodIds : methodObjs[p].state = "live" /\ MethodBool(methodObjs[p])
    /\ ownedHandles # {}
    /\ \A h \in ownedHandles : handleReleases[h] = 0

----------------------------------------------------------------------------
(* VM: the owner of a runtime and of its dispatch registry *)

\* VM::VM(): new BoundState(), wrenNewVM; rt is the new runtime
VMCtor(rt) == [state |-> "live", vm |-> rt]

\* VM::VM(VM&& other)
VMMoveCtor(other) ==
    [self |-> [state |-> "live", vm |-> other.vm], other |-> [other EXCEPT !.vm = 0]]

\* VM::operator=(VM&& rhs); same: &rhs == this
VMMoveAssign(self, rhs, same) ==
    IF same THEN [self |-> self, rhs |-> rhs]
    ELSE [self |-> [self EXCEPT !.vm = rhs.vm], rhs |-> [rhs EXCEPT !.vm = 0]]

\* VM::~VM(): delete the BoundState, wrenFreeVM
VMDtor(self, frees) ==
    IF self.vm # 0
    THEN [n |-> 1, frees |-> [frees EXCEPT ![self.vm].state = @ + 1, ![self.vm].vm = @ + 1]]
    ELSE [n |-> 0, frees |-> frees]

VMConstruct(o) ==
    /\ ~aborted
    /\ vmObjs[o].state = "unborn"
    /\ rtFrees' = Append(rtFrees, [vm |-> 0, state |-> 0])
    /\ vmObjs' = [vmObjs EXCEPT ![o] = VMCtor(Len(rtFrees) + 1)]
    /\ UNCHANGED <<aborted, vmMovedFrom, vmDtorFrees,
                   dispatchVars, hashed, typeVars, foreignVars, methodVars, protocolVars>>

VMMoveConstruct(dst, src) ==
    LET r == VMMoveCtor(vmObjs[src])
    IN  /\ ~aborted
        /\ vmObjs[dst].state = "unborn"
        /\ vmObjs[src].state = "live"
        /\ vmObjs' = [vmObjs EXCEPT ![dst] = r.self, ![src] = r.other]
        /\ vmMovedFrom' = vmMovedFrom \cup {src}
        /\ UNCHANGED <<aborted, rtFrees, vmDtorFrees,
                       dispatchVars, hashed, typeVars, foreignVars, methodVars, protocolVars>>

VMMoveAssignment(dst, src) ==
    LET r == VMMoveAssign(vmObjs[dst], vmObjs[src], dst = src)
    IN  /\ ~aborted
        /\ vmObjs[dst].state = "live"
        /\ vmObjs[src].state = "live"
        /\ vmObjs' = (IF dst = src THEN [vmObjs EXCEPT ![dst] = r.self]
                      ELSE [vmObjs EXCEPT ![dst] = r.self, ![src] = r.rhs])
        /\ vmMovedFrom' = (IF dst = src THEN vmMovedFrom ELSE (vmMovedFrom \cup {src}) \ {dst})
        /\ UNCHANGED <<aborted, rtFrees, vmDtorFrees,
                       dispatchVars, hashed, typeVars, foreignVars, methodVars, protocolVars>>

VMDestroy(o) ==
    LET r == VMDtor(vmObjs[o], rtFrees)
    IN  /\ ~aborted
        /\ vmObjs[o].state = "live"
        /\ vmObjs' = [vmObjs EXCEPT ![o].state = "dead"]
        /\ rtFrees' = r.frees
        /\ vmDtorFrees' = [vmDtorFrees EXCEPT ![o] = r.n]
        /\ UNCHANGED <<aborted, vmMovedFrom,
                       dispatchVars, hashed, typeVars, foreignVars, methodVars, protocolVars>>

NextVM ==
    \/ \E o \in VMIds : VMConstruct(o)
    \/ \E dst, src \in VMIds : VMMoveConstruct(dst, src)
    \/ \E dst, src \in VMIds : VMMoveAssignment(dst, src)
    \/ \E o \in VMIds : VMDestroy(o)

SpecVM == Init /\ [][NextVM]_vars

NoLiveVM == \A o \in VMIds : vmObjs[o].state # "live"

\* C6: a runtime and its dispatch registry have at most one owning VM at a
\* time, a moved-from VM is inert and its destructor frees nothing, and
\* every runtime and registry made is freed exactly once by the time all VM
\* instances are destroyed.
RuntimeOwnedAndFreedOnce ==
    /\ \A o, p \in VMIds :
          (o # p /\ vmObjs[o].state = "live" /\ vmObjs[p].state = "live" /\ vmObjs[o].vm # 0)
              => vmObjs[o].vm # vmObjs[p].vm
    /\ \A o \in vmMovedFrom :
          vmObjs[o].vm = 0 /\ (vmObjs[o].state = "dead" => vmDtorFrees[o] = 0)
    /\ \A r \in 1..Len(rtFrees) : rtFrees[r].vm <= 1 /\ rtFrees[r].state <= 1
    /\ NoLiveVM => \A r \in 1..Len(rtFrees) : rtFrees[r].vm = 1 /\ rtFrees[r].state = 1

----------------------------------------------------------------------------
(* Method::operator(): the call from the host into a script method *)

\* the Method instances and the arguments of the calls
CallMethods == {1, 2}
HostNative == 1
NumArg == [kind |-> "num", val |-> 1]
BoolArg == [kind |-> "bool", val |-> TRUE]
PtrArg == [kind |-> "ptr", val |-> HostNative]
ArgLists == {<<>>, <<NumArg>>, <<PtrArg>>, <<BoolArg, NumArg>>, <<NumArg, PtrArg>>}

\* what the runtime may leave in slot 0 when wrenCall returns
TextA == <<1>>
ReturnSlots ==
    {NullSlot, [kind |-> "bool", val |-> TRUE], [kind |-> "num", val |-> 1],
     [kind |-> "string", val |-> TextA], [kind |-> "list", val |-> 0]}
        \cup {ForeignRef(o) : o \in 1..Len(heap)}
CallResults == {"WREN_RESULT_SUCCESS", "WREN_RESULT_RUNTIME_ERROR"}

\* wrenEnsureSlots(vm, n): the slot array grows to n slots if it is shorter
wrenEnsureSlots(s, n) ==
    [i \in (DOMAIN s) \cup (0..(n - 1)) |-> IF i \in DOMAIN s THEN s[i] ELSE NullSlot]

\* wrenSetSlotHandle(vm, slot, handle)
wrenSetSlotHandle(s, slot, handle) == [s EXCEPT ![slot] = [kind |-> "handle", val |-> handle]]

\* WrenSlotAPI<double>::set, WrenSlotAPI<bool>::set and WrenSlotAPI<T*>::set
\* (ForeignObjectPtr<T>::setInSlot) on the call state st
WrenSlotAPISet(st, slot, arg) ==
    IF arg.kind = "ptr"
    THEN IF NamesBound(natives[arg.val].type)
         THEN [st EXCEPT !.heap = Append(@, [variant |-> "Ptr", type |-> natives[arg.val].type,
                                             target |-> arg.val, finalized |-> FALSE]),
                         !.slots = [wrenEnsureSlots(@, slot + 1) EXCEPT
                                       ![slot] = ForeignRef(Len(st.heap) + 1)],
                         !.trace = Append(@, <<"set", slot, arg>>)]
         ELSE [st EXCEPT !.ok = FALSE]
    ELSE [st EXCEPT !.slots[slot] = arg, !.trace = Append(@, <<"set", slot, arg>>)]

RECURSIVE passArgumentsToWrenShifted(_, _, _)
passArgumentsToWrenShifted(st, tuple, index) ==
    IF index >= Len(tuple) \/ ~st.ok THEN st
    ELSE passArgumentsToWrenShifted(WrenSlotAPISet(st, index, tuple[index + 1]), tuple, index + 1)

\* passArgumentsToWren(vm, tuple, index_sequence): element index goes to slot
\* index + 1, the elements taken from left to right
RECURSIVE passArgumentsToWren(_, _, _)
passArgumentsToWren(st, tuple, index) ==
    IF index >= Len(tuple) \/ ~st.ok THEN st
    ELSE passArgumentsToWren(WrenSlotAPISet(st, index + 1, tuple[index + 1]), tuple, index + 1)

\* Value::Value(bool), Value(double), Value(T*): the tag and the bytes of t
ValueOf(type, t) == [type |-> type, string |-> 0, storage |-> t]

\* Value::Value(const char*): the copy lives in buffer buf
ValueOfString(buf) == [type |-> "STRING", string |-> buf, storage |-> 0]

BoxIgnoringResult(result, slot0, buf) ==
    IF slot0.kind = "bool" THEN ValueOf("BOOL", slot0.val)
    ELSE IF slot0.kind = "num" THEN ValueOf("NUM", slot0.val)
    ELSE IF slot0.kind = "string" THEN ValueOfString(buf)
    ELSE IF slot0.kind = "foreign" THEN ValueOf("FOREIGN", slot0.val)
    ELSE NullValue

\* the end of Method::operator(): the switch on wrenGetSlotType(vm, 0) when
\* the call succeeded, null otherwise
Box(result, slot0, buf) ==
    IF result = "WREN_RESULT_SUCCESS"
    THEN IF slot0.kind = "bool" THEN ValueOf("BOOL", slot0.val)
         ELSE IF slot0.kind = "num" THEN ValueOf("NUM", slot0.val)
         ELSE IF slot0.kind = "string" THEN ValueOfString(buf)
         ELSE IF slot0.kind = "foreign" THEN ValueOf("FOREIGN", slot0.val)
         ELSE NullValue
    ELSE NullValue

\* the slots and the API calls of Method::operator() up to wrenCall
PrepareCall(self, args) ==
    LET ensured == wrenEnsureSlots(slots, Len(args) + 1)
        st0 == [slots |-> wrenSetSlotHandle(ensured, 0, self.variable), heap |-> heap,
                ok |-> TRUE,
                trace |-> <<<<"wrenEnsureSlots", Len(args) + 1>>,
                            <<"wrenSetSlotHandle", 0, self.variable>>>>]
        st1 == passArgumentsToWren(st0, args, 0)
    IN  [st1 EXCEPT !.trace = IF st1.ok THEN Append(@, <<"wrenCall", self.method>>) ELSE @]

\* Method::operator()(args...) on Method o; the runtime answers the call with
\* result and leaves ret in slot 0
MethodCall(o, args, result, ret) ==
    LET self == methodObjs[o]
        st == PrepareCall(self, args)
        buf == Len(strBufs) + 1
        value == Box(result, ret, buf)
    IN  /\ ~aborted
        /\ numCalls < MaxCalls
        /\ self.state = "live"
        /\ IF self.vm = 0 \/ self.variable = 0 \/ self.method = 0
           THEN /\ aborted' = TRUE
                /\ UNCHANGED <<slots, heap, strBufs, lastCall, numCalls>>
           ELSE IF ~st.ok
           THEN /\ aborted' = TRUE
                /\ slots' = st.slots
                /\ heap' = st.heap
                /\ UNCHANGED <<strBufs, lastCall, numCalls>>
           ELSE /\ UNCHANGED aborted
                /\ heap' = st.heap
                /\ slots' = [st.slots EXCEPT ![0] = ret]
                /\ strBufs' = (IF value.type = "STRING"
                               THEN Append(strBufs, [text |-> ret.val, frees |-> 0])
                               ELSE strBufs)
                /\ numCalls' = numCalls + 1
                /\ lastCall' = [method |-> o, variable |-> self.variable, handle |-> self.method,
                                args |-> args, trace |-> st.trace, before |-> slots,
                                atCall |-> st.slots, res |-> result, slot0 |-> ret,
                                value |-> value, execBefore |-> lastExec.result]
        /\ UNCHANGED <<dispatchVars, hashed, typeVars, natives, lastUnwrap, methodVars, vmVars,
                       lastExec, lastInvoke, values, fieldVars>>

Host == InitRegistered /\ aborted = FALSE /\ hashed = {}

\* the VM instance TheVM is constructed and owns runtime 1
HostVM ==
    /\ vmObjs = [o \in VMIds |-> IF o = TheVM THEN VMCtor(1) ELSE UnbornVM]
    /\ rtFrees = <<[vm |-> 0, state |-> 0]>>
    /\ vmMovedFrom = {}
    /\ vmDtorFrees = [o \in VMIds |-> 0]

InitCallSpec ==
    /\ Host
    /\ heap = <<>>
    /\ natives = <<[type |-> "A", storage |-> "host", dtors |-> 0, field |-> 0]>>
    /\ slots = [i \in {0} |-> NullSlot]
    /\ lastUnwrap = NoUnwrap
    /\ InitMethods
    /\ HostVM
    /\ InitProtocol

NextCall ==
    \/ \E o \in CallMethods : VMMethod(o)
    \/ \E o \in CallMethods : MethodDefault(o)
    \/ \E o \in CallMethods, args \in ArgLists, result \in CallResults, ret \in ReturnSlots :
          MethodCall(o, args, result, ret)

SpecCall == InitCallSpec /\ [][NextCall]_vars

\* what WrenSlotAPI<...>::set leaves in a slot for argument arg
Marshalled(arg, slot) ==
    IF arg.kind = "ptr"
    THEN /\ slot.kind = "foreign"
         /\ slot.val \in 1..Len(heap)
         /\ heap[slot.val].variant = "Ptr"
         /\ heap[slot.val].target = arg.val
    ELSE slot = arg

\* the last invocation, step by step
CallProtocolFollowed ==
    lastCall.method # 0 =>
        LET n == Len(lastCall.args)
            t == lastCall.trace
        IN  /\ Len(t) = n + 3
            /\ t[1][1] = "wrenEnsureSlots" /\ t[1][2] >= n + 1
            /\ t[2] = <<"wrenSetSlotHandle", 0, lastCall.variable>>
            /\ \A i \in 0..(n - 1) : t[3 + i] = <<"set", i + 1, lastCall.args[i + 1]>>
            /\ t[n + 3] = <<"wrenCall", lastCall.handle>>
            /\ Cardinality({k \in 1..Len(t) : t[k][1] = "wrenCall"}) = 1
            /\ 0..n \subseteq DOMAIN lastCall.atCall
            /\ lastCall.atCall[0] = [kind |-> "handle", val |-> lastCall.variable]
            /\ \A i \in 0..(n - 1) : Marshalled(lastCall.args[i + 1], lastCall.atCall[i + 1])
            /\ \A j \in DOMAIN lastCall.atCall :
                  j > n => (j \in DOMAIN lastCall.before /\ lastCall.atCall[j] = lastCall.before[j])
            /\ methodObjs[lastCall.method].variable = lastCall.variable
            /\ methodObjs[lastCall.method].method = lastCall.handle
            /\ handleReleases[lastCall.variable] = 0
            /\ handleReleases[lastCall.handle] = 0

\* C14: an invocation with n arguments ensures n+1 slots, stores the
\* receiver handle in slot 0, stores argument i in slot i+1 and in no other
\* slot, then makes the script call once with the call handle; it changes
\* and releases neither handle of the Method, which can be invoked again.
InvocationFollowsProtocol ==
    /\ []CallProtocolFollowed
    /\ [][lastCall' # lastCall =>
             (methodObjs' = methodObjs /\ handleReleases' = handleReleases)]_vars

\* a second invocation, with one argument, while the slot beyond it holds
\* what the earlier call left there
WitnessRepeatedInvocation ==
    /\ numCalls = 2
    /\ Len(lastCall.args) = 1
    /\ 2 \in DOMAIN lastCall.before
    /\ lastCall.before[2] # NullSlot
    /\ lastCall.args[1] = PtrArg

\* C15: the Value returned by an invocation has the tag and the content of
\* slot 0 when the call succeeded and slot 0 holds a bool, a number, a
\* string or a foreign object; it is the null Value when the call failed or
\* slot 0 holds anything else.
ResultBoxedOrNull ==
    lastCall.method # 0 =>
        LET v == lastCall.value
            r == lastCall.slot0
        IN  IF lastCall.res = "WREN_RESULT_SUCCESS"
               /\ r.kind \in {"bool", "num", "string", "foreign"}
            THEN /\ r.kind = "bool" => (v.type = "BOOL" /\ v.storage = r.val)
                 /\ r.kind = "num" => (v.type = "NUM" /\ v.storage = r.val)
                 /\ r.kind = "foreign" => (v.type = "FOREIGN" /\ v.storage = r.val)
                 /\ r.kind = "string" =>
                       (v.type = "STRING" /\ v.string \in 1..Len(strBufs)
                        /\ strBufs[v.string].text = r.val)
            ELSE v = NullValue

\* a failed call that left a string in slot 0
WitnessFailedCallWithValue ==
    /\ lastCall.method # 0
    /\ lastCall.res = "WREN_RESULT_RUNTIME_ERROR"
    /\ lastCall.slot0.kind = "string"

----------------------------------------------------------------------------
(* VM::executeString and VM::executeModule *)

\* script texts: one that compiles and runs, one that does not compile, one
\* that fails while it runs
Sources == {"valid", "malformed", "throwing"}
\* what the file <module>.wren holds, NoFile when there is no such file
NoFile == "nofile"
Files == Sources \cup {NoFile}

\* wrenInterpret, as the runtime answers for each text
wrenInterpret(source) ==
    IF source = "valid" THEN "WREN_RESULT_SUCCESS"
    ELSE IF source = "malformed" THEN "WREN_RESULT_COMPILE_ERROR"
    ELSE "WREN_RESULT_RUNTIME_ERROR"

ResultOfAlwaysSuccess(res) == "Success"

\* the two tests on res that end executeModule and executeString
ResultOf(res) ==
    IF res = "WREN_RESULT_COMPILE_ERROR" THEN "CompileError"
    ELSE IF res = "WREN_RESULT_RUNTIME_ERROR" THEN "RuntimeError"
    ELSE "Success"

\* the default VM::loadModuleFn: fileToString throws when the file is
\* missing, the lambda catches and returns nullptr
loadModuleFn(file) == IF file = NoFile THEN "nullptr" ELSE file

\* std::string(nullptr) is undefined: the constructor throws std::logic_error
\* or the process dies in strlen
NullStringOutcomes == {"exception", "crash"}

\* VM::executeString(module, str)
executeString(str) ==
    LET res == wrenInterpret(str)
    IN  [source |-> str, phases |-> <<"Created", "Interpreting", ResultOf(res)>>,
         res |-> res, result |-> ResultOf(res)]

\* VM::executeModule(mod): outcome is what the construction of the string
\* from a null pointer does
executeModule(file, outcome) ==
    LET loaded == loadModuleFn(file)
    IN  IF loaded = "nullptr"
        THEN [source |-> loaded, phases |-> <<"Created", outcome>>, res |-> "none",
              result |-> outcome]
        ELSE LET res == wrenInterpret(loaded)
             IN  [source |-> loaded, phases |-> <<"Created", "Interpreting", ResultOf(res)>>,
                  res |-> res, result |-> ResultOf(res)]

ExecuteString(o, str) ==
    LET r == executeString(str)
    IN  /\ ~aborted
        /\ vmObjs[o].state = "live" /\ vmObjs[o].vm # 0
        /\ lastExec' = [op |-> "executeString", vm |-> o, source |-> r.source,
                        phases |-> r.phases, res |-> r.res, result |-> r.result,
                        prev |-> lastExec.result]
        /\ UNCHANGED <<aborted, dispatchVars, hashed, typeVars, foreignVars, methodVars, vmVars,
                       lastCall, numCalls, lastInvoke, valueVars, fieldVars>>

ExecuteModule(o, file, outcome) ==
    LET r == executeModule(file, outcome)
    IN  /\ ~aborted
        /\ vmObjs[o].state = "live" /\ vmObjs[o].vm # 0
        /\ lastExec' = [op |-> "executeModule", vm |-> o, source |-> r.source,
                        phases |-> r.phases, res |-> r.res, result |-> r.result,
                        prev |-> lastExec.result]
        /\ aborted' = (r.result = "crash")
        /\ UNCHANGED <<dispatchVars, hashed, typeVars, foreignVars, methodVars, vmVars,
                       lastCall, numCalls, lastInvoke, valueVars, fieldVars>>

ExecMethods == {1}

NextExec ==
    \/ \E str \in Sources : ExecuteString(TheVM, str)
    \/ \E file \in Files, outcome \in NullStringOutcomes : ExecuteModule(TheVM, file, outcome)
    \/ \E o \in ExecMethods : VMMethod(o)
    \/ \E o \in ExecMethods, result \in CallResults : MethodCall(o, <<NumArg>>, result, NumArg)

SpecExec == InitCallSpec /\ [][NextExec]_vars

Results == {"Success", "CompileError", "RuntimeError"}

\* C12: when the loader has no source for the module, executeModule returns
\* one of the Result values: nothing is thrown, the process is not aborted
\* and the runtime is not asked to interpret anything.
NoSourceIsLoadFailure ==
    (lastExec.op = "executeModule" /\ lastExec.source = "nullptr") =>
        /\ lastExec.result \in Results
        /\ lastExec.res = "none"
        /\ ~aborted

\* the last attempt that reached the interpreter
ExecOutcomeOK ==
    (lastExec.op # "none" /\ lastExec.source # "nullptr") =>
        /\ lastExec.res = wrenInterpret(lastExec.source)
        /\ lastExec.res = "WREN_RESULT_SUCCESS" => lastExec.result = "Success"
        /\ lastExec.res = "WREN_RESULT_COMPILE_ERROR" => lastExec.result = "CompileError"
        /\ lastExec.res = "WREN_RESULT_RUNTIME_ERROR" => lastExec.result = "RuntimeError"
        /\ lastExec.phases = <<"Created", "Interpreting", lastExec.result>>
        /\ ~aborted

\* after a failed attempt every entry point of the VM can still be taken
StillUsable ==
    (lastExec.result \in {"CompileError", "RuntimeError"} /\ ~aborted) =>
        /\ ENABLED ExecuteString(lastExec.vm, "valid")
        /\ ENABLED ExecuteModule(lastExec.vm, "valid", "exception")
        /\ (\E o \in ExecMethods : methodObjs[o].state = "unborn")
              => ENABLED (\E o \in ExecMethods : VMMethod(o))
        /\ \A o \in ExecMethods :
              (methodObjs[o].state = "live" /\ numCalls < MaxCalls)
                  => ENABLED MethodCall(o, <<NumArg>>, "WREN_RESULT_SUCCESS", NumArg)

----------------------------------------------------------------------------
(* ForeignMethodWrapper: the adapters of bound native callables *)

\* the shapes of callable, their arities, and the class of the member shapes
Shapes == {"free", "member", "constmember"}
Arities == 0..2
AdapterClass == "A"
AdapterSlots == 0..2

\* the arguments the script passes, per arity
RECURSIVE ScriptArgs(_)
ScriptArgs(n) ==
    IF n = 0 THEN {<<>>} ELSE {Append(a, v) : a \in ScriptArgs(n - 1), v \in FieldVals}

RECURSIVE Sum(_)
Sum(seq) == IF seq = <<>> THEN 0 ELSE Head(seq) + Sum(Tail(seq))

\* the bound callable f: a function of its arguments and, for the member
\* shapes, of the object it is called on
Callable(shape, obj, args) ==
    (IF shape = "free" THEN 0 ELSE natives[obj].field) + Sum(args)

\* WrenSlotAPI<double>::get
WrenSlotAPIGet(s, slot) == s[slot].val

\* invokeHelper, the three overloads: the reads of slot index + 1 for each
\* parameter index, the receiver taken out of slot 0 by the member overloads,
\* and the one call of f
invokeHelper(shape, s, arity) ==
    LET args == [index \in 1..arity |-> WrenSlotAPIGet(s, (index - 1) + 1)]
        obj == IF shape = "free" THEN 0 ELSE heap[s[0].val].target
    IN  [read |-> [index \in 1..arity |-> (index - 1) + 1], args |-> args, receiver |-> obj,
         invoked |-> 1, ret |-> Callable(shape, obj, args)]

InvokeAlwaysReturning(predicate, shape, s, arity) ==
    LET r == invokeHelper(shape, s, arity)
    IN  [call |-> r, slots |-> [s EXCEPT ![0] = [kind |-> "num", val |-> r.ret]]]

\* InvokeWithoutReturningIf<predicate>::invoke: the plain call when the
\* return type is void, WrenSlotAPI<R>::set(vm, 0, ...) of the result otherwise
InvokeWithoutReturningIf(predicate, shape, s, arity) ==
    LET r == invokeHelper(shape, s, arity)
    IN  IF predicate THEN [call |-> r, slots |-> s]
        ELSE [call |-> r, slots |-> [s EXCEPT ![0] = [kind |-> "num", val |-> r.ret]]]

\* what the runtime sets up before it calls a foreign method: the receiver
\* (the class itself for a static method) in slot 0, the arguments after it
ForeignCallSlots(recv, args) ==
    [i \in AdapterSlots |->
        IF i = 0 THEN recv
        ELSE IF i <= Len(args) THEN [kind |-> "num", val |-> args[i]]
        ELSE slots[i]]

\* ForeignMethodWrapper<Signature, f>::call(vm), entered by the runtime with
\* recv and args in the slots; isVoid is std::is_void<R>::value
AdapterCall(shape, isVoid, recv, args) ==
    LET entry == ForeignCallSlots(recv, args)
        r == InvokeWithoutReturningIf(isVoid, shape, entry, Len(args))
    IN  /\ ~aborted
        /\ IF shape = "free" THEN recv = [kind |-> "class", val |-> 0]
           ELSE /\ recv.kind = "foreign"
                /\ recv.val \in 1..Len(heap)
                /\ ~heap[recv.val].finalized
                /\ heap[recv.val].type = AdapterClass
        /\ slots' = r.slots
        /\ lastInvoke' = [shape |-> shape, arity |-> Len(args), void |-> isVoid,
                          receiver |-> r.call.receiver, read |-> r.call.read,
                          args |-> r.call.args, invoked |-> r.call.invoked,
                          before |-> entry, after |-> r.slots]
        /\ UNCHANGED <<aborted, dispatchVars, hashed, typeVars, heap, natives, lastUnwrap,
                       methodVars, vmVars, lastExec, lastCall, numCalls, valueVars, fieldVars>>

InitAdapterSpec ==
    /\ Host
    /\ heap = <<>>
    /\ natives = <<>>
    /\ slots = [i \in AdapterSlots |-> NullSlot]
    /\ lastUnwrap = NoUnwrap
    /\ InitMethods
    /\ HostVM
    /\ InitProtocol

Receivers == {[kind |-> "class", val |-> 0]} \cup {ForeignRef(o) : o \in 1..Len(heap)}

NextAdapter ==
    \/ Allocate(AdapterClass)
    \/ \E fv \in FieldVals : SetInSlotValue(AdapterClass, 0, fv)
    \/ \E shape \in Shapes, isVoid \in BOOLEAN, recv \in Receivers, n \in Arities :
          \E args \in ScriptArgs(n) : AdapterCall(shape, isVoid, recv, args)

SpecAdapter == InitAdapterSpec /\ [][NextAdapter]_vars

\* C16: the adapter of a callable of arity n reads parameter i from slot
\* i+1 for every i < n, calls the callable once with those values (a member
\* on the receiver unwrapped from slot 0), and writes the result to slot 0
\* if and only if the return type is not void; no other slot is written.
AdapterReadsInvokesWrites ==
    lastInvoke.shape # "none" =>
        LET n == lastInvoke.arity
            b == lastInvoke.before
            a == lastInvoke.after
        IN  /\ lastInvoke.read = [i \in 1..n |-> i]
            /\ lastInvoke.args = [i \in 1..n |-> b[i].val]
            /\ lastInvoke.invoked = 1
            /\ lastInvoke.shape # "free" => lastInvoke.receiver = heap[b[0].val].target
            /\ \A j \in AdapterSlots \ {0} : a[j] = b[j]
            /\ lastInvoke.void => a[0] = b[0]
            /\ ~lastInvoke.void =>
                  a[0] = [kind |-> "num",
                          val |-> Callable(lastInvoke.shape, lastInvoke.receiver, lastInvoke.args)]

\* a void const member function of two parameters has been called on an
\* object whose field is not zero
WitnessVoidMemberCall ==
    /\ lastInvoke.shape = "constmember"
    /\ lastInvoke.void
    /\ lastInvoke.arity = 2
    /\ natives[lastInvoke.receiver].field # 0
    /\ lastInvoke.args[1] # lastInvoke.args[2]

----------------------------------------------------------------------------
(* Value: the boxed result *)

Texts == {TextA, <<2, 1>>}

\* VM::reallocateFn(nullptr, size): a new buffer; strcpy fills it
Allocated(bufs, text) == Append(bufs, [text |-> text, frees |-> 0])

\* VM::reallocateFn(_string, 0u)
Freed(bufs, b) == [bufs EXCEPT ![b].frees = @ + 1]

\* Value::Value(const Value&) = default: every member is copied, the
\* pointer _string included
ValueCopyCtor(value) == [type |-> value.type, string |-> value.string, storage |-> value.storage]

\* Value::~Value()
ValueDtor(self, bufs) == IF self.string # 0 THEN Freed(bufs, self.string) ELSE bufs

Live(value) == [state |-> "live", type |-> value.type, string |-> value.string,
                storage |-> value.storage]

ValueFromString(text) ==
    /\ Len(values) < MaxValues
    /\ strBufs' = Allocated(strBufs, text)
    /\ values' = Append(values, Live(ValueOfString(Len(strBufs) + 1)))
    /\ UNCHANGED <<aborted, dispatchVars, hashed, typeVars, foreignVars, methodVars, vmVars,
                   callVars, fieldVars>>

ValueFromDouble(val) ==
    /\ Len(values) < MaxValues
    /\ values' = Append(values, Live(ValueOf("NUM", val)))
    /\ UNCHANGED <<aborted, dispatchVars, hashed, typeVars, foreignVars, methodVars, vmVars,
                   callVars, strBufs, fieldVars>>

ValueDefault ==
    /\ Len(values) < MaxValues
    /\ values' = Append(values, Live(NullValue))
    /\ UNCHANGED <<aborted, dispatchVars, hashed, typeVars, foreignVars, methodVars, vmVars,
                   callVars, strBufs, fieldVars>>

ValueCopy(src) ==
    /\ Len(values) < MaxValues
    /\ values[src].state = "live"
    /\ values' = Append(values, Live(ValueCopyCtor(values[src])))
    /\ UNCHANGED <<aborted, dispatchVars, hashed, typeVars, foreignVars, methodVars, vmVars,
                   callVars, strBufs, fieldVars>>

ValueDestroy(v) ==
    /\ values[v].state = "live"
    /\ strBufs' = ValueDtor(values[v], strBufs)
    /\ values' = [values EXCEPT ![v].state = "dead"]
    /\ UNCHANGED <<aborted, dispatchVars, hashed, typeVars, foreignVars, methodVars, vmVars,
                   callVars, fieldVars>>

NextValues ==
    \/ \E text \in Texts : ValueFromString(text)
    \/ \E val \in FieldVals : ValueFromDouble(val)
    \/ ValueDefault
    \/ \E src \in 1..Len(values) : ValueCopy(src)
    \/ \E v \in 1..Len(values) : ValueDestroy(v)

SpecValues == Init /\ [][NextValues]_vars

\* C17: no two live Values hold the same string buffer, no buffer is freed
\* twice, and once every Value is destroyed every buffer has been freed once.
StringBuffersOwnedAndFreedOnce ==
    /\ \A v, w \in 1..Len(values) :
          (v # w /\ values[v].state = "live" /\ values[w].state = "live"
           /\ values[v].string # 0) => values[v].string # values[w].string
    /\ \A b \in 1..Len(strBufs) : strBufs[b].frees <= 1
    /\ (\A v \in 1..Len(values) : values[v].state = "dead")
          => \A b \in 1..Len(strBufs) : strBufs[b].frees = 1

----------------------------------------------------------------------------
(* Foreign classes with fields: construct, propertyGetter, propertySetter *)

\* In this section a script number is held as twice its value, so that 3
\* stands for one and a half; a C++ int is held as itself.
ScriptNums == {0, 2, 3}

\* class A has a double field, class B an int field, and class C a field of
\* class A
FieldClasses == {"A", "B"}
OuterClass == "C"
InnerClass == "A"
FieldTypeOf(T) == IF T = "B" THEN "int" ELSE "double"

\* int(wrenGetSlotDouble(vm, slot)): the fraction is dropped
ToInt(num) == num \div 2
\* double(val)
ToDouble(val) == 2 * val

\* WrenSlotAPI<double>::get and WrenSlotAPI<int>::get
SlotGetAs(U, s, slot) == IF U = "int" THEN ToInt(s[slot].val) ELSE s[slot].val

\* WrenSlotAPI<double>::set and WrenSlotAPI<int>::set
SlotSetAs(U, s, slot, val) ==
    [s EXCEPT ![slot] = [kind |-> "num", val |-> IF U = "int" THEN ToDouble(val) ELSE val]]

\* the slots as the runtime hands them to a foreign method of object o
ReceiverSlots(o, args) ==
    [i \in Slots |-> IF i = 0 THEN ForeignRef(o)
                     ELSE IF i <= Len(args) THEN [kind |-> "num", val |-> args[i]]
                     ELSE slots[i]]

propertySetterOnFirstObject(U, s, nat) ==
    [nat EXCEPT ![1].field = SlotGetAs(U, s, 1)]

\* propertySetter<T, U, Field>(vm): obj->*Field = WrenSlotAPI<U>::get(vm, 1)
propertySetter(U, s, nat) ==
    LET obj == heap[s[0].val].target
    IN  [nat EXCEPT ![obj].field = SlotGetAs(U, s, 1)]

\* propertyGetter<T, U, Field>(vm) for a U that is no class:
\* SetFieldInSlot<false>::set(vm, 0, obj->*Field)
propertyGetter(U, s, nat) ==
    LET obj == heap[s[0].val].target
    IN  SlotSetAs(U, s, 0, nat[obj].field)

\* allocate<T, U>(vm), called by the runtime for T.new(arg): construct reads
\* slot 1 and builds T{...} inside the new foreign object
AllocateWith(T, arg) ==
    LET entry == [i \in Slots |-> IF i = 1 THEN [kind |-> "num", val |-> arg] ELSE slots[i]]
    IN  /\ ~aborted
        /\ Len(heap) < MaxObjs
        /\ natives' = Append(natives, [type |-> T, storage |-> "embedded", dtors |-> 0,
                                       field |-> SlotGetAs(FieldTypeOf(T), entry, 1)])
        /\ heap' = Append(heap, [variant |-> "Value", type |-> T, target |-> Len(natives) + 1,
                                 finalized |-> FALSE])
        /\ slots' = [entry EXCEPT ![0] = ForeignRef(Len(heap) + 1)]
        /\ memberOf' = Append(memberOf, 0)
        /\ written' = Append(written, [arg |-> arg, by |-> "constructor"])
        /\ UNCHANGED <<aborted, dispatchVars, hashed, typeVars, lastUnwrap, methodVars, vmVars,
                       callVars, valueVars, lastGet>>

\* allocate<C>(vm): the new C holds its field of class A inside itself
AllocateOuter ==
    /\ ~aborted
    /\ Len(heap) < MaxObjs
    /\ natives' = natives \o <<[type |-> OuterClass, storage |-> "embedded", dtors |-> 0,
                                 field |-> 0],
                                [type |-> InnerClass, storage |-> "member", dtors |-> 0,
                                 field |-> 0]>>
    /\ heap' = Append(heap, [variant |-> "Value", type |-> OuterClass,
                             target |-> Len(natives) + 1, finalized |-> FALSE])
    /\ slots' = [slots EXCEPT ![0] = ForeignRef(Len(heap) + 1)]
    /\ memberOf' = memberOf \o <<0, Len(natives) + 1>>
    /\ written' = written \o <<[arg |-> 0, by |-> "constructor"],
                               [arg |-> 0, by |-> "constructor"]>>
    /\ UNCHANGED <<aborted, dispatchVars, hashed, typeVars, lastUnwrap, methodVars, vmVars,
                   callVars, valueVars, lastGet>>

\* a live object of class T, as the receiver of a script call
Receiver(o, T) == o \in 1..Len(heap) /\ ~heap[o].finalized /\ heap[o].type = T

\* the script assigns arg to the field of o: the runtime calls propertySetter
SetterCall(o, T, arg) ==
    LET entry == ReceiverSlots(o, <<arg>>)
    IN  /\ ~aborted
        /\ Receiver(o, T)
        /\ heap[o].variant = "Value"
        /\ slots' = entry
        /\ natives' = propertySetter(FieldTypeOf(T), entry, natives)
        /\ written' = [written EXCEPT ![heap[o].target] = [arg |-> arg, by |-> "setter"]]
        /\ UNCHANGED <<aborted, dispatchVars, hashed, typeVars, heap, lastUnwrap, methodVars,
                       vmVars, callVars, valueVars, memberOf, lastGet>>

\* the script reads the field of o: the runtime calls propertyGetter
GetterCall(o, T) ==
    LET entry == ReceiverSlots(o, <<>>)
        s == propertyGetter(FieldTypeOf(T), entry, natives)
    IN  /\ ~aborted
        /\ Receiver(o, T)
        /\ heap[o].variant = "Value"
        /\ slots' = s
        /\ lastGet' = [object |-> heap[o].target, field |-> FieldTypeOf(T),
                       given |-> written[heap[o].target].arg, result |-> s[0]]
        /\ UNCHANGED <<aborted, dispatchVars, hashed, typeVars, heap, natives, lastUnwrap,
                       methodVars, vmVars, callVars, valueVars, memberOf, written>>

\* the script reads the field of class A of o: propertyGetter<C, A, Field>
\* and SetFieldInSlot<true>::set wrap the address of the field
GetterCallClass(o) ==
    LET entry == ReceiverSlots(o, <<>>)
        field == CHOOSE n \in 1..Len(natives) : memberOf[n] = heap[o].target
    IN  /\ ~aborted
        /\ Receiver(o, OuterClass)
        /\ heap[o].variant = "Value"
        /\ Len(heap) < MaxObjs
        /\ IF NamesBound(InnerClass)
           THEN /\ heap' = Append(heap, [variant |-> "Ptr", type |-> InnerClass,
                                         target |-> field, finalized |-> FALSE])
                /\ slots' = [entry EXCEPT ![0] = ForeignRef(Len(heap) + 1)]
                /\ UNCHANGED aborted
           ELSE /\ aborted' = TRUE
                /\ slots' = entry
                /\ UNCHANGED heap
        /\ UNCHANGED <<dispatchVars, hashed, typeVars, natives, lastUnwrap, methodVars, vmVars,
                       callVars, valueVars, fieldVars>>

\* the script drops what a slot refers to
ClearSlot(slot) ==
    /\ ~aborted
    /\ slots[slot] # NullSlot
    /\ slots' = [slots EXCEPT ![slot] = NullSlot]
    /\ UNCHANGED <<aborted, dispatchVars, hashed, typeVars, heap, natives, lastUnwrap,
                   methodVars, vmVars, protocolVars>>

InitFieldSpec ==
    /\ Host
    /\ heap = <<>>
    /\ natives = <<>>
    /\ slots = [i \in Slots |-> NullSlot]
    /\ lastUnwrap = NoUnwrap
    /\ InitMethods
    /\ HostVM
    /\ InitProtocol

NextFields ==
    \/ \E T \in FieldClasses, arg \in ScriptNums : AllocateWith(T, arg)
    \/ AllocateOuter
    \/ \E o \in 1..Len(heap), T \in FieldClasses, arg \in ScriptNums : SetterCall(o, T, arg)
    \/ \E o \in 1..Len(heap), T \in FieldClasses : GetterCall(o, T)
    \/ \E o \in 1..Len(heap) : GetterCallClass(o)
    \/ \E slot \in Slots : ClearSlot(slot)
    \/ \E o \in 1..Len(heap), T \in NativeTypes : Finalize(o, T)

SpecFields == InitFieldSpec /\ [][NextFields]_vars

\* the objects with a field of their own
HasField(n) == natives[n].type \in FieldClasses /\ natives[n].storage = "embedded"

\* the number a getter hands back for argument arg given to a field of type U
AsStored(U, arg) == IF U = "int" THEN 2 * (arg \div 2) ELSE arg

Destroyed(n) ==
    \/ natives[n].dtors > 0
    \/ memberOf[n] # 0 /\ natives[memberOf[n]].dtors > 0

\* C20: a Borrowed wrapper made by the getter of a class-typed field and not
\* yet reclaimed points to an object whose destructor has not run.
FieldWrapperPointeeAlive ==
    \A w \in 1..Len(heap) :
        (heap[w].variant = "Ptr" /\ ~heap[w].finalized /\ memberOf[heap[w].target] # 0)
            => ~Destroyed(heap[w].target)

----------------------------------------------------------------------------
(* WrenSlotAPI<T>::set: the slot each converter writes *)

ConvertHandles == {1, 2}

\* WrenSlotAPI<bool>::set: wrenSetSlotBool(vm, slot, val)
SetSlotBool(slot, val) ==
    /\ ~aborted
    /\ slots' = [slots EXCEPT ![slot] = [kind |-> "bool", val |-> val]]
    /\ UNCHANGED <<aborted, heap, natives, dispatchVars, hashed, typeVars, lastUnwrap,
                   methodVars, vmVars, protocolVars>>

\* WrenSlotAPI<const char*>::set, WrenSlotAPI<std::string>::set and
\* WrenSlotAPI<const std::string&>::set: wrenSetSlotString copies the text
SetSlotString(slot, text) ==
    /\ ~aborted
    /\ slots' = [slots EXCEPT ![slot] = [kind |-> "string", val |-> text]]
    /\ UNCHANGED <<aborted, heap, natives, dispatchVars, hashed, typeVars, lastUnwrap,
                   methodVars, vmVars, protocolVars>>

\* WrenSlotAPI<WrenHandle*>::set: wrenSetSlotHandle(vm, slot, val)
SetSlotHandle(slot, handle) ==
    /\ ~aborted
    /\ slots' = wrenSetSlotHandle(slots, slot, handle)
    /\ UNCHANGED <<aborted, heap, natives, dispatchVars, hashed, typeVars, lastUnwrap,
                   methodVars, vmVars, protocolVars>>

\* WrenSlotAPI<const T&>::set(vm, int /*slot*/, t): the slot parameter has no
\* name and ForeignObjectPtr<T>::setInSlot is called with slot 0
SetInSlotConstRef(T, slot, n) == SetInSlotPtr(T, 0, n)

NextConvert ==
    \/ \E T \in ForeignTypes, slot \in Slots, n \in 1..Len(natives) : SetInSlotConstRef(T, slot, n)
    \/ \E T \in ForeignTypes, slot \in Slots, n \in 1..Len(natives) : SetInSlotPtr(T, slot, n)
    \/ \E T \in ForeignTypes, slot \in Slots, fv \in FieldVals : SetInSlotValue(T, slot, fv)
    \/ \E slot \in Slots, val \in FieldVals : SetSlotDouble(slot, val)
    \/ \E slot \in Slots, val \in BOOLEAN : SetSlotBool(slot, val)
    \/ \E slot \in Slots, text \in Texts : SetSlotString(slot, text)
    \/ \E slot \in Slots, handle \in ConvertHandles : SetSlotHandle(slot, handle)
    \/ \E o \in 1..Len(heap), T \in ForeignTypes : Finalize(o, T)

SpecConvert == InitForeignSpec /\ [][NextConvert]_vars

\* the step put content in the slot given and left every other slot as it was
StoredIn(slot, content) ==
    /\ slots'[slot] = content
    /\ \A other \in Slots \ {slot} : slots'[other] = slots[other]

\* the step made a wrapper of the given variant for class T and put it in
\* the slot given
WrappedIn(slot, variant, T) ==
    /\ Len(heap') = Len(heap) + 1
    /\ heap'[Len(heap')].variant = variant
    /\ heap'[Len(heap')].type = T
    /\ StoredIn(slot, ForeignRef(Len(heap')))

\* the primitive, string, handle, by-value, T&, T* and const T* converters
OtherConvertersKeepFrame ==
    \A slot \in Slots :
        /\ \A val \in FieldVals :
              SetSlotDouble(slot, val) => StoredIn(slot, [kind |-> "num", val |-> val])
        /\ \A val \in BOOLEAN :
              SetSlotBool(slot, val) => StoredIn(slot, [kind |-> "bool", val |-> val])
        /\ \A text \in Texts :
              SetSlotString(slot, text) => StoredIn(slot, [kind |-> "string", val |-> text])
        /\ \A handle \in ConvertHandles :
              SetSlotHandle(slot, handle) => StoredIn(slot, [kind |-> "handle", val |-> handle])
        /\ \A T \in ForeignTypes, fv \in FieldVals :
              (SetInSlotValue(T, slot, fv) /\ ~aborted')
                  => (WrappedIn(slot, "Value", T) /\ natives'[heap'[Len(heap')].target].field = fv)
        /\ \A T \in ForeignTypes, n \in 1..Len(natives) :
              (SetInSlotPtr(T, slot, n) /\ ~aborted')
                  => (WrappedIn(slot, "Ptr", T) /\ heap'[Len(heap')].target = n)

\* the const T& converter
ConstRefConverterKeepsFrame ==
    \A slot \in Slots, T \in ForeignTypes, n \in 1..Len(natives) :
        (SetInSlotConstRef(T, slot, n) /\ ~aborted')
            => (WrappedIn(slot, "Ptr", T) /\ heap'[Len(heap')].target = n)

\* C19: every converter's set(slot, v) stores the converted value in the
\* slot it was given and changes no other slot, for slot 0 and for slot 1.
SetWritesOnlyTheGivenSlot ==
    [][OtherConvertersKeepFrame /\ ConstRefConverterKeepsFrame]_vars

----------------------------------------------------------------------------
(* Value: the bytes of _storage behind the numeric constructors and as<T> *)

\* _storage is held as its eight bytes, _storage[0] first, on a machine
\* that keeps the low byte first and has a 32-bit int and IEEE 754 float
\* and double.
NumVals == {-1, 0, 1, 3}
NumericTypes == {"int", "unsigned", "float", "double"}
Accessors == {"float", "double"}

RECURSIVE Pow2(_)
Pow2(k) == IF k = 0 THEN 1 ELSE 2 * Pow2(k - 1)

\* the position of the highest set bit of n > 0
RECURSIVE Log2(_)
Log2(n) == IF n < 2 THEN 0 ELSE 1 + Log2(n \div 2)

Abs(v) == IF v < 0 THEN -v ELSE v
SignBit(v) == IF v < 0 THEN 1 ELSE 0

\* the object representation of an int or unsigned int (two's complement)
IntBytes(v) ==
    [i \in 1..4 |-> IF v >= 0 THEN (v \div Pow2(8 * (i - 1))) % 256
                    ELSE 255 - (((-v - 1) \div Pow2(8 * (i - 1))) % 256)]

\* the object representation of float(v): sign, 8 bits of exponent, 23 bits
\* of mantissa
FloatBytes(v) ==
    IF v = 0 THEN <<0, 0, 0, 0>>
    ELSE LET e == Log2(Abs(v))
             exponent == e + 127
             mantissa == (Abs(v) - Pow2(e)) * Pow2(23 - e)
         IN  <<mantissa % 256,
               (mantissa \div 256) % 256,
               (exponent % 2) * 128 + mantissa \div 65536,
               SignBit(v) * 128 + exponent \div 2>>

\* the object representation of double(v): sign, 11 bits of exponent, 52
\* bits of mantissa of which a small integer uses the highest 20
DoubleBytes(v) ==
    IF v = 0 THEN <<0, 0, 0, 0, 0, 0, 0, 0>>
    ELSE LET e == Log2(Abs(v))
             exponent == e + 1023
             mantissa == (Abs(v) - Pow2(e)) * Pow2(20 - e)
         IN  <<0, 0, 0, 0,
               mantissa % 256,
               (mantissa \div 256) % 256,
               (exponent % 16) * 16 + mantissa \div 65536,
               SignBit(v) * 128 + exponent \div 16>>

ObjectBytes(T, val) ==
    IF T = "bool" THEN <<IF val THEN 1 ELSE 0>>
    ELSE IF T = "float" THEN FloatBytes(val)
    ELSE IF T = "double" THEN DoubleBytes(val)
    ELSE IntBytes(val)

\* Value::set(t) on the zeroed _storage of a new Value:
\* memcpy(_storage, &t, sizeof(T))
set(T, t) ==
    LET bytes == ObjectBytes(T, t)
    IN  [i \in 1..8 |-> IF i <= Len(bytes) THEN bytes[i] ELSE 0]

\* what a read gives: a whole number, or a value that is no whole number of
\* at most 21 bits (a fraction, a subnormal, an infinity, a NaN or a larger
\* number), kept as its bytes
Whole(sign, significand, shift) ==
    [kind |-> "num", val |-> (IF sign = 1 THEN -1 ELSE 1) * (significand \div Pow2(shift))]
NotWhole(bytes) == [kind |-> "other", val |-> bytes]

\* the float whose object representation is bytes
FloatOf(bytes) ==
    LET sign == bytes[4] \div 128
        exponent == (bytes[4] % 128) * 2 + bytes[3] \div 128
        mantissa == (bytes[3] % 128) * 65536 + bytes[2] * 256 + bytes[1]
        e == exponent - 127
    IN  IF exponent = 0 /\ mantissa = 0 THEN Whole(sign, 0, 0)
        ELSE IF e < 0 \/ e > 20 THEN NotWhole(bytes)
        ELSE IF mantissa % Pow2(23 - e) # 0 THEN NotWhole(bytes)
        ELSE Whole(sign, Pow2(23) + mantissa, 23 - e)

\* the double whose object representation is bytes
DoubleOf(bytes) ==
    LET sign == bytes[8] \div 128
        exponent == (bytes[8] % 128) * 16 + bytes[7] \div 16
        high == (bytes[7] % 16) * 65536 + bytes[6] * 256 + bytes[5]
        low == {bytes[i] : i \in 1..4}
        e == exponent - 1023
    IN  IF exponent = 0 /\ high = 0 /\ low = {0} THEN Whole(sign, 0, 0)
        ELSE IF e < 0 \/ e > 20 THEN NotWhole(bytes)
        ELSE IF low # {0} \/ high % Pow2(20 - e) # 0 THEN NotWhole(bytes)
        ELSE Whole(sign, Pow2(20) + high, 20 - e)

\* Value::as<float>() and Value::as<double>() past their assert:
\* *reinterpret_cast<const float*>(&_storage[0]) and the same with double
as(U, storage) ==
    IF U = "float" THEN FloatOf([i \in 1..4 |-> storage[i]]) ELSE DoubleOf(storage)

NoRead == [as |-> "none", result |-> NullSlot]

\* Value::Value(float), Value(double), Value(int) and Value(unsigned int)
ValueFromNumber(T, val) ==
    /\ ~aborted
    /\ Len(values) < MaxValues
    /\ T = "unsigned" => val >= 0
    /\ values' = Append(values, [state |-> "live", type |-> "NUM", string |-> 0,
                                 storage |-> set(T, val), ctor |-> T, given |-> val,
                                 read |-> NoRead])
    /\ UNCHANGED <<aborted, dispatchVars, hashed, typeVars, foreignVars, methodVars, vmVars,
                   callVars, strBufs, fieldVars>>

\* Value::Value(bool)
ValueFromBool(val) ==
    /\ ~aborted
    /\ Len(values) < MaxValues
    /\ values' = Append(values, [state |-> "live", type |-> "BOOL", string |-> 0,
                                 storage |-> set("bool", val), ctor |-> "bool", given |-> 0,
                                 read |-> NoRead])
    /\ UNCHANGED <<aborted, dispatchVars, hashed, typeVars, foreignVars, methodVars, vmVars,
                   callVars, strBufs, fieldVars>>

\* value.as<U>(): assert(_type == WREN_TYPE_NUM), then the read
ValueAs(v, U) ==
    /\ ~aborted
    /\ values[v].state = "live"
    /\ IF values[v].type = "NUM"
       THEN /\ values' = [values EXCEPT ![v].read = [as |-> U, result |-> as(U, values[v].storage)]]
            /\ UNCHANGED aborted
       ELSE /\ aborted' = TRUE
            /\ UNCHANGED values
    /\ UNCHANGED <<dispatchVars, hashed, typeVars, foreignVars, methodVars, vmVars,
                   callVars, strBufs, fieldVars>>

NextNumbers ==
    \/ \E T \in NumericTypes, val \in NumVals : ValueFromNumber(T, val)
    \/ \E val \in BOOLEAN : ValueFromBool(val)
    \/ \E v \in 1..Len(values), U \in Accessors : ValueAs(v, U)

SpecNumbers == Init /\ [][NextNumbers]_vars

\* C21: a number Value that has been read through as<float>() or
\* as<double>() gave the number it was built from, whichever of Value(int),
\* Value(unsigned), Value(float) and Value(double) built it.
NumbersReadBack ==
    \A v \in 1..Len(values) :
        values[v].read.as # "none" =>
            values[v].read.result = [kind |-> "num", val |-> values[v].given]

====
